---- MODULE Spec2Model ----
(***************************************************************************)
(* Streamable-HTTP transport of the Notifly MCP server                     *)
(* (src/src/http-server.ts): the origin middleware, the session registry,  *)
(* StreamableHttpTransport and the GET /mcp and POST /mcp handlers.        *)
(*                                                                         *)
(* Node runs every handler and every transport call to completion, so one  *)
(* action is one handler invocation or one call made by the protocol       *)
(* engine.  The engine (the SDK Server built by createMcpServer) is an     *)
(* opaque callback: it is handed inbound messages and calls                *)
(* transport.send() whenever it likes, possibly from inside the delivery.  *)
(***************************************************************************)
EXTENDS Integers, Sequences, FiniteSets, TLC

\* ---------------------------------------------------------------- bounds
\* Sessions created; and response objects kept, messages the engines produce
\* and messages delivered to them, counted together.
MaxSessions == 2

MaxWork == 6

\* ----------------------------------------------------------- JSON values
\* A JavaScript value is a record [t |-> typeof, v |-> printed value].
Undefined == [t |-> "undefined", v |-> ""]

Str(s) == [t |-> "string", v |-> s]

Num(s) == [t |-> "number", v |-> s]

Obj(s) == [t |-> "object", v |-> s]

\* Request bodies as express.json() hands them to the handlers: `truthy` is
\* FALSE for a missing body (req.body undefined).
MethodValues == {Undefined, Str("initialize"), Str("ping"), Num("7")}

IdValues == {Undefined, Num("0")}

ResultValues == {Undefined, Obj("{}")}

ErrorValues == {Undefined, Obj("{}")}

NoBody == [truthy |-> FALSE, method |-> Undefined, id |-> Undefined,
           result |-> Undefined, error |-> Undefined]

Bodies ==
    {NoBody} \cup
    {b \in [truthy : {TRUE}, method : MethodValues, id : IdValues,
            result : ResultValues, error : ErrorValues] :
        b.result = Undefined \/ b.error = Undefined}

Body(method, id, result) ==
    [truthy |-> TRUE, method |-> method, id |-> id, result |-> result,
     error |-> Undefined]

\* The bodies the clients of the model post: one of every shape the POST
\* handler tells apart.
PostedBodies ==
    {Body(Undefined, Undefined, Undefined),
     Body(Str("initialize"), Num("0"), Undefined),
     Body(Str("ping"), Num("0"), Undefined),
     Body(Str("ping"), Undefined, Undefined),
     Body(Undefined, Num("0"), Obj("{}")),
     Body(Str("ping"), Num("0"), Obj("{}"))}

\* ------------------------------------------------------ message classifier
isInitializeRequest(msg) ==
    msg.truthy /\ msg.method = Str("initialize")

isRequest(msg) ==
    msg.truthy /\ msg.method.t = "string" /\ msg.id # Undefined

isNotification(msg) ==
    msg.truthy /\ msg.method.t = "string" /\ msg.id = Undefined

\* isResponse() that also wants the method to be absent.
isResponseWithoutMethod(msg) ==
    msg.truthy /\ (msg.result # Undefined \/ msg.error # Undefined)
               /\ msg.id # Undefined /\ msg.method = Undefined

isResponse(msg) ==
    msg.truthy /\ (msg.result # Undefined \/ msg.error # Undefined)
               /\ msg.id # Undefined

\* ------------------------------------------------------ origin allow-list
\* Strings that are split or searched are sequences of one-character strings.
\* String.prototype.split(','): the pieces between the commas, in order.
RECURSIVE SplitFrom(_, _, _)
SplitFrom(s, i, piece) ==
    IF i > Len(s) THEN <<piece>>
    ELSE IF s[i] = "," THEN <<piece>> \o SplitFrom(s, i + 1, <<>>)
    ELSE SplitFrom(s, i + 1, Append(piece, s[i]))

Split(s) == SplitFrom(s, 1, <<>>)

\* process.env.ALLOWED_ORIGINS ? process.env.ALLOWED_ORIGINS.split(',') : []
AllowedOriginsOf(e) ==
    IF e.t = "string" /\ e.v # <<>> THEN Split(e.v) ELSE <<>>

Includes(list, x) == \E i \in 1..Len(list) : list[i] = x

\* The origin looked up in the unsplit string (String.prototype.includes).
IsSubstring(x, s) ==
    \E i \in 1..(Len(s) - Len(x) + 1) : SubSeq(s, i, i + Len(x) - 1) = x

OriginForbiddenBySubstring(e, origin) ==
    /\ origin.t = "string" /\ origin.v # <<>>
    /\ e.t = "string" /\ e.v # <<>>
    /\ ~IsSubstring(origin.v, e.v)

\* The security middleware answers 403 instead of calling next().
OriginForbidden(e, origin) ==
    LET allowedOrigins == AllowedOriginsOf(e) IN
    /\ origin.t = "string" /\ origin.v # <<>>
    /\ Len(allowedOrigins) > 0
    /\ ~Includes(allowedOrigins, origin.v)

\* The cors() origin callback fails the request with an Error.
CorsRejects(e, origin) ==
    LET allowedOrigins == AllowedOriginsOf(e) IN
    /\ ~(origin.t = "undefined" \/ origin.v = <<>>)
    /\ ~(Len(allowedOrigins) = 0 \/ Includes(allowedOrigins, origin.v))

\* An unset environment variable or an absent header.
Unset == [t |-> "undefined", v |-> <<>>]

EnvValues ==
    {Unset, Str(<<>>), Str(<<"a">>), Str(<<"a", ",", "b">>), Str(<<",">>),
     Str(<<"c", "a">>)}

OriginValues ==
    {Unset, Str(<<>>), Str(<<"a">>), Str(<<"b">>), Str(<<"c">>)}

\* The deployment the model runs: ALLOWED_ORIGINS=a,b.
DeployedEnv == {Str(<<"a", ",", "b">>)}

\* ------------------------------------------------------------------ state
VARIABLES
    env,          \* process.env.ALLOWED_ORIGINS
    sessions,     \* the registry: session id -> [server, transport]
    transports,   \* the StreamableHttpTransport objects, by creation order
    engines,      \* the protocol engine of each transport (its observable side)
    responses,    \* the HTTP response objects that outlive their handler call
    nextUuid,     \* uuidv4(): the next session id it returns
    hung,         \* the event loop is stuck inside a call that never returns
    last          \* the most recent HTTP exchange: inputs and reply

vars == <<env, sessions, transports, engines, responses, nextUuid, hung, last>>

\* The part of the state the transport code reads and writes, as one value.
World ==
    [transports |-> transports, engines |-> engines, responses |-> responses,
     nextUuid |-> nextUuid, hung |-> hung]

\* An outbound JSON-RPC message is [src |-> k, seq |-> n]: the n-th message
\* the engine of transport k handed to send().
\* JSON.stringify(message); the empty data field of a priming event is <<>>.
JSONstringify(m) == <<"json", m.src, m.seq>>

\* `id: ${eventId}\nevent: message\ndata: ${data}\n\n`.  The id line is a
\* fresh uuidv4() that nothing reads afterwards; the frame keeps the rest.
SseEvent(data) == [event |-> "message", data |-> data]

\* new StreamableHttpTransport(sessionId), then server.connect(transport)
\* has set onmessage.
NewTransport(sessionId) ==
    [sessionId |-> sessionId, onmessage |-> TRUE, currentResponse |-> 0,
     messageQueue |-> <<>>, pendingRequestHandler |-> 0]

NewEngine == [inbox |-> <<>>, produced |-> 0]

\* A fresh express Response: nothing sent yet.  `owner` and `producedBefore`
\* are history, not fields of the object: the transport whose request the
\* response answers, and how many messages that transport's engine had
\* produced when the request was handled.  `abandoned` is the position of the
\* handler that owns the response: TRUE once it has left by an exception.
NewResponse(k, producedBefore) ==
    [statusCode |-> 0, sessionHeader |-> 0, contentType |-> "",
     chunks |-> <<>>, json |-> <<>>, writableEnded |-> FALSE,
     owner |-> k, producedBefore |-> producedBefore, abandoned |-> FALSE]

\* res.json(message): status 200, the encoded message as body, response ended.
ResJson(res, m) ==
    [res EXCEPT !.statusCode = 200, !.contentType = "application/json",
                !.json = JSONstringify(m), !.writableEnded = TRUE]

\* The Pending Responder is `resolve` of the promise the POST handler awaits;
\* calling it makes that handler continue with res.json(response).  When the
\* handler has left before reaching the await, nobody reads the promise.
PendingRequestHandlerCall(w, r, m) ==
    IF w.responses[r].abandoned THEN w
    ELSE [w EXCEPT !.responses[r] = ResJson(@, m)]

\* send() with its first two tests exchanged: an open sink wins over the
\* Pending Responder.
SendSinkFirst(w, k, m) ==
    LET t == w.transports[k] IN
    IF t.currentResponse # 0
            /\ ~w.responses[t.currentResponse].writableEnded THEN
        [w EXCEPT !.responses[t.currentResponse].chunks =
                      Append(@, SseEvent(JSONstringify(m)))]
    ELSE IF t.pendingRequestHandler # 0 THEN
        [PendingRequestHandlerCall(w, t.pendingRequestHandler, m)
            EXCEPT !.transports[k].pendingRequestHandler = 0]
    ELSE
        [w EXCEPT !.transports[k].messageQueue = Append(@, m)]

\* StreamableHttpTransport.send(message) on transport k.
Send(w, k, m) ==
    LET t == w.transports[k] IN
    IF t.pendingRequestHandler # 0 THEN
        [PendingRequestHandlerCall(w, t.pendingRequestHandler, m)
            EXCEPT !.transports[k].pendingRequestHandler = 0]
    ELSE IF t.currentResponse # 0
            /\ ~w.responses[t.currentResponse].writableEnded THEN
        [w EXCEPT !.responses[t.currentResponse].chunks =
                      Append(@, SseEvent(JSONstringify(m)))]
    ELSE
        [w EXCEPT !.transports[k].messageQueue = Append(@, m)]

\* The flush loop of attachResponse: shift() the head and send() it until the
\* queue is empty.  When no responder is installed and the sink has ended,
\* send() appends the message again and the loop never ends.
RECURSIVE Flush(_, _)
Flush(w, k) ==
    LET t == w.transports[k] IN
    IF t.messageQueue = <<>> THEN w
    ELSE IF t.pendingRequestHandler = 0
            /\ w.responses[t.currentResponse].writableEnded THEN
        [w EXCEPT !.hung = TRUE]
    ELSE
        Flush(Send([w EXCEPT !.transports[k].messageQueue = Tail(@)],
                   k, Head(t.messageQueue)), k)

\* attachResponse() without the flush loop.
AttachResponseNoFlush(w, k, r) ==
    [w EXCEPT !.transports[k].currentResponse = r]

\* attachResponse() that keeps the sink it already has.
AttachResponseKeepFirst(w, k, r) ==
    Flush(IF w.transports[k].currentResponse = 0
          THEN [w EXCEPT !.transports[k].currentResponse = r]
          ELSE w, k)

\* StreamableHttpTransport.attachResponse(res), res being responses[r].
AttachResponse(w, k, r) ==
    Flush([w EXCEPT !.transports[k].currentResponse = r], k)

\* StreamableHttpTransport.setPendingRequestHandler(handler)
SetPendingRequestHandler(w, k, r) ==
    [w EXCEPT !.transports[k].pendingRequestHandler = r]

\* What the engine does inside onmessage(message): it records the message and,
\* for a request it answers at once (no handler for the method), calls send()
\* before returning.
EngineOnMessage(w, k, message, sync) ==
    LET w1 == [w EXCEPT !.engines[k].inbox = Append(@, message)] IN
    IF sync THEN
        Send([w1 EXCEPT !.engines[k].produced = @ + 1], k,
             [src |-> k, seq |-> w.engines[k].produced + 1])
    ELSE w1

\* The engine answers from inside onmessage only what it reads as a request.
EngineRepliesSync(message) ==
    /\ message.truthy /\ message.method.t = "string"
    /\ message.id # Undefined
    /\ message.result = Undefined /\ message.error = Undefined

\* StreamableHttpTransport.handleMessage(message)
HandleMessage(w, k, message, sync) ==
    IF w.transports[k].onmessage THEN EngineOnMessage(w, k, message, sync)
    ELSE w

\* -------------------------------------------------------------- HTTP layer
\* The reply the client sees when the handler call returns: status 0 means
\* that no status line has been sent yet (the request is still blocked).
Reply(status, text, errorCode, lookup, res) ==
    [status |-> status, text |-> text, errorCode |-> errorCode,
     lookup |-> lookup, res |-> res]

Outcome(w, sess, reply) == [w |-> w, sessions |-> sess, reply |-> reply]

\* The security middleware's 403 reply.
Forbidden(w, sess) ==
    Outcome(w, sess, Reply(403, "Forbidden: Invalid Origin", -32000, FALSE, 0))

\* app.get("/mcp") that attaches the response before it writes the priming
\* event.
HttpGetAttachFirst(w, sess, sessionId) ==
    IF sessionId = 0 THEN
        Outcome(w, sess, Reply(400, "Missing MCP-Session-Id header", 0, FALSE, 0))
    ELSE IF sessionId \notin DOMAIN sess THEN
        Outcome(w, sess, Reply(404, "Session not found", 0, TRUE, 0))
    ELSE
        LET k == sess[sessionId].transport
            r == Len(w.responses) + 1
            res == [NewResponse(k, w.engines[k].produced) EXCEPT
                       !.statusCode = 200,
                       !.contentType = "text/event-stream"]
            w1 == AttachResponse([w EXCEPT !.responses = Append(@, res)], k, r)
            w2 == [w1 EXCEPT !.responses[r].chunks = Append(@, SseEvent(<<>>))]
        IN  Outcome(w2, sess, Reply(200, "", 0, TRUE, r))

\* app.get("/mcp")
HttpGet(w, sess, sessionId) ==
    IF sessionId = 0 THEN
        Outcome(w, sess, Reply(400, "Missing MCP-Session-Id header", 0, FALSE, 0))
    ELSE IF sessionId \notin DOMAIN sess THEN
        Outcome(w, sess, Reply(404, "Session not found", 0, TRUE, 0))
    ELSE
        LET k == sess[sessionId].transport
            r == Len(w.responses) + 1
                res == [NewResponse(k, w.engines[k].produced) EXCEPT
                       !.statusCode = 200,
                       !.contentType = "text/event-stream",
                       !.chunks = <<SseEvent(<<>>)>>]
            w1 == [w EXCEPT
                       !.responses = Append(@, res)]
        IN  Outcome(AttachResponse(w1, k, r), sess,
                    Reply(200, "", 0, TRUE, r))

\* The initialization branch without transport.attachResponse(res).
PostInitializeUnattached(w, sess, body, sync) ==
    LET newSessionId == w.nextUuid
        k == Len(w.transports) + 1
        r == Len(w.responses) + 1
        w1 == [w EXCEPT
                   !.nextUuid = @ + 1,
                   !.transports = Append(@, NewTransport(newSessionId)),
                   !.engines = Append(@, NewEngine)]
        sess1 == (newSessionId :> [server |-> k, transport |-> k]) @@ sess
        res == [NewResponse(k, 0) EXCEPT
                   !.statusCode = 200,
                   !.sessionHeader = newSessionId,
                   !.contentType = "text/event-stream",
                   !.chunks = <<SseEvent(<<>>)>>]
        w2 == [w1 EXCEPT !.responses = Append(@, res)]
        w4 == HandleMessage(w2, k, body, sync)
    IN  Outcome(w4, sess1, Reply(200, "", 0, FALSE, r))

\* The initialization branch with a session id that is not fresh: the id of
\* the first session, every time.
PostInitializeSameId(w, sess, body, sync) ==
    LET newSessionId == 1
        k == Len(w.transports) + 1
        r == Len(w.responses) + 1
        w1 == [w EXCEPT
                   !.nextUuid = @ + 1,
                   !.transports = Append(@, NewTransport(newSessionId)),
                   !.engines = Append(@, NewEngine)]
        sess1 == (newSessionId :> [server |-> k, transport |-> k]) @@ sess
        res == [NewResponse(k, 0) EXCEPT
                   !.statusCode = 200,
                   !.sessionHeader = newSessionId,
                   !.contentType = "text/event-stream",
                   !.chunks = <<SseEvent(<<>>)>>]
        w2 == [w1 EXCEPT !.responses = Append(@, res)]
        w3 == AttachResponse(w2, k, r)
        w4 == HandleMessage(w3, k, body, sync)
    IN  Outcome(w4, sess1, Reply(200, "", 0, FALSE, r))

\* app.post("/mcp"), no session id and an initialize body.
PostInitialize(w, sess, body, sync) ==
    LET newSessionId == w.nextUuid
        k == Len(w.transports) + 1
        r == Len(w.responses) + 1
        w1 == [w EXCEPT
                   !.nextUuid = @ + 1,
                   !.transports = Append(@, NewTransport(newSessionId)),
                   !.engines = Append(@, NewEngine)]
        sess1 == (newSessionId :> [server |-> k, transport |-> k]) @@ sess
        res == [NewResponse(k, 0) EXCEPT
                   !.statusCode = 200,
                   !.sessionHeader = newSessionId,
                   !.contentType = "text/event-stream",
                   !.chunks = <<SseEvent(<<>>)>>]
        w2 == [w1 EXCEPT
                   !.responses = Append(@, res)]
        w3 == AttachResponse(w2, k, r)
        w4 == HandleMessage(w3, k, body, sync)
    IN  Outcome(w4, sess1, Reply(200, "", 0, FALSE, r))

\* The 202 branch delivering the message a second time.
PostNotificationTwice(w, sess, k, body, sync) ==
    Outcome(HandleMessage(HandleMessage(w, k, body, sync), k, body, sync),
            sess, Reply(202, "", 0, TRUE, 0))

\* app.post("/mcp"), known session, notification or response body.
PostNotification(w, sess, k, body, sync) ==
    Outcome(HandleMessage(w, k, body, sync), sess, Reply(202, "", 0, TRUE, 0))

\* The request branch working on the first session's transport, whatever
\* session the request names.
PostRequestOnFirst(w, sess, k, body, sync) ==
    LET r == Len(w.responses) + 1
        w1 == [w EXCEPT !.responses =
                   Append(@, NewResponse(1, w.engines[1].produced))]
        w2 == SetPendingRequestHandler(w1, 1, r)
        w3 == HandleMessage(w2, 1, body, sync)
    IN  Outcome(w3, sess, Reply(w3.responses[r].statusCode, "", 0, TRUE, r))

\* app.post("/mcp"), known session, request body: the handler installs the
\* responder, delivers the message and awaits the promise.
PostRequest(w, sess, k, body, sync) ==
    LET r == Len(w.responses) + 1
        w1 == [w EXCEPT !.responses =
                   Append(@, NewResponse(k, w.engines[k].produced))]
        w2 == SetPendingRequestHandler(w1, k, r)
        w3 == HandleMessage(w2, k, body, sync)
    IN  Outcome(w3, sess, Reply(w3.responses[r].statusCode, "", 0, TRUE, r))

\* app.post("/mcp"), known session, request body, when the engine's onmessage
\* throws: handleMessage() is called before the try block, so the exception
\* leaves the async handler with the responder installed and the promise
\* unread.  What the client gets is the framework's business: Express 5 hands
\* the rejection to its error handler, which replies 500 (caught); Express 4
\* does not look at it and nothing is ever sent.
PostRequestThrows(w, sess, k, body, caught) ==
    LET r == Len(w.responses) + 1
        res == [NewResponse(k, w.engines[k].produced) EXCEPT
                   !.abandoned = TRUE]
        w1 == [w EXCEPT !.responses = Append(@, res)]
        w2 == SetPendingRequestHandler(w1, k, r)
        w3 == [w2 EXCEPT !.engines[k].inbox = Append(@, body)]
        w4 == IF caught
              THEN [w3 EXCEPT !.responses[r].statusCode = 500,
                              !.responses[r].contentType = "text/html",
                              !.responses[r].writableEnded = TRUE]
              ELSE w3
    IN  Outcome(w4, sess, Reply(w4.responses[r].statusCode, "", 0, TRUE, r))

\* app.post("/mcp") that looks at the body before the session header: an
\* initialize body opens a session whatever the header says.
HttpPostInitializeFirst(w, sess, sessionId, body, sync) ==
    IF isInitializeRequest(body) THEN PostInitialize(w, sess, body, sync)
    ELSE IF sessionId = 0 THEN
        Outcome(w, sess,
                Reply(400, "Missing MCP-Session-Id header", 0, FALSE, 0))
    ELSE IF sessionId \notin DOMAIN sess THEN
        Outcome(w, sess, Reply(404, "Session not found", 0, TRUE, 0))
    ELSE
        LET k == sess[sessionId].transport IN
        IF isNotification(body) \/ isResponse(body) THEN
            PostNotification(w, sess, k, body, sync)
        ELSE IF isRequest(body) THEN
            PostRequest(w, sess, k, body, sync)
        ELSE Outcome(w, sess,
                     Reply(400, "Invalid JSON-RPC message", 0, TRUE, 0))

\* app.post("/mcp")
HttpPost(w, sess, sessionId, body, sync) ==
    IF sessionId = 0 THEN
        IF isInitializeRequest(body) THEN PostInitialize(w, sess, body, sync)
        ELSE Outcome(w, sess,
                     Reply(400, "Missing MCP-Session-Id header", 0, FALSE, 0))
    ELSE IF sessionId \notin DOMAIN sess THEN
        Outcome(w, sess, Reply(404, "Session not found", 0, TRUE, 0))
    ELSE
        LET k == sess[sessionId].transport IN
        IF isNotification(body) \/ isResponse(body) THEN
            PostNotification(w, sess, k, body, sync)
        ELSE IF isRequest(body) THEN
            PostRequest(w, sess, k, body, sync)
        ELSE Outcome(w, sess,
                     Reply(400, "Invalid JSON-RPC message", 0, TRUE, 0))

\* The middleware chain in front of both routes: the security middleware,
\* then cors(), whose Error ends in the framework's 500 reply.
Pipeline(e, origin, w, sess, handled) ==
    IF OriginForbidden(e, origin) THEN Forbidden(w, sess)
    ELSE IF CorsRejects(e, origin) THEN
        Outcome(w, sess, Reply(500, "Not allowed by CORS", 0, FALSE, 0))
    ELSE handled

\* ---------------------------------------------------------------- actions
Produced(w) ==
    LET RECURSIVE Sum(_)
        Sum(i) == IF i = 0 THEN 0 ELSE w.engines[i].produced + Sum(i - 1)
    IN  Sum(Len(w.engines))

Inbound(w) ==
    LET RECURSIVE Sum(_)
        Sum(i) == IF i = 0 THEN 0 ELSE Len(w.engines[i].inbox) + Sum(i - 1)
    IN  Sum(Len(w.engines))

WithinBounds(w) ==
    /\ Len(w.transports) <= MaxSessions
    /\ Len(w.responses) + Produced(w) + Inbound(w) <= MaxWork

Commit(w) ==
    /\ transports' = w.transports
    /\ engines' = w.engines
    /\ responses' = w.responses
    /\ nextUuid' = w.nextUuid
    /\ hung' = w.hung

\* The session ids a client may put in MCP-Session-Id: none (0), a registered
\* one, or one the server has not handed out.
SessionIdValues == {0} \cup DOMAIN sessions \cup {nextUuid}

\* `last` names the most recent event and, for a request, holds its reply.
Event(op, reply) == [op |-> op] @@ reply

NoReply == Reply(0, "", 0, FALSE, 0)

\* A GET /mcp request through the middleware chain.
GetOutcome(origin, sessionId) ==
    Pipeline(env, origin, World, sessions, HttpGet(World, sessions, sessionId))

\* A POST /mcp request through the middleware chain.
PostOutcome(origin, sessionId, body, sync) ==
    Pipeline(env, origin, World, sessions,
             HttpPost(World, sessions, sessionId, body, sync))

GetMcp(origin, sessionId) ==
    LET out == GetOutcome(origin, sessionId) IN
    /\ ~hung
    /\ WithinBounds(out.w)
    /\ Commit(out.w)
    /\ sessions' = out.sessions
    /\ last' = Event("GET", out.reply)
    /\ UNCHANGED env

PostMcp(origin, sessionId, body, sync) ==
    LET out == PostOutcome(origin, sessionId, body, sync) IN
    /\ ~hung
    /\ WithinBounds(out.w)
    /\ Commit(out.w)
    /\ sessions' = out.sessions
    /\ last' = Event("POST", out.reply)
    /\ UNCHANGED env

\* The engine of transport k calls transport.send() outside any delivery: the
\* answer of an asynchronous request handler, or a notification of its own.
EngineSend(k) ==
    LET w1 == [World EXCEPT !.engines[k].produced = @ + 1]
        w2 == Send(w1, k, [src |-> k, seq |-> engines[k].produced + 1]) IN
    /\ ~hung
    /\ WithinBounds(w2)
    /\ Commit(w2)
    /\ UNCHANGED <<env, sessions, last>>

\* StreamableHttpTransport.close(), called by the engine: onclose runs.
TransportClose(k) ==
    /\ ~hung
    /\ last' = Event("close", NoReply)
    /\ UNCHANGED <<env, sessions, transports, engines, responses, nextUuid,
                   hung>>

\* The HTTP layer ends an event stream (res.writableEnded becomes true).
EndResponse(r) ==
    /\ ~hung
    /\ responses[r].contentType = "text/event-stream"
    /\ ~responses[r].writableEnded
    /\ responses' = [responses EXCEPT ![r].writableEnded = TRUE]
    /\ UNCHANGED <<env, sessions, transports, engines, nextUuid, hung, last>>

\* A close listener that detaches the stream from its transport.
ClientDisconnectDetaches(r) ==
    /\ ~hung
    /\ responses[r].contentType = "text/event-stream"
    /\ transports' =
           [k \in 1..Len(transports) |->
               IF transports[k].currentResponse = r
               THEN [transports[k] EXCEPT !.currentResponse = 0]
               ELSE transports[k]]
    /\ last' = [written |-> Len(responses[r].chunks)]
                    @@ Event("disconnect", Reply(0, "", 0, FALSE, r))
    /\ UNCHANGED <<env, sessions, engines, responses, nextUuid, hung>>

\* The client of an event stream goes away: the empty req.on("close") listener.
\* The event names the stream and says how many chunks it held by then.
ClientDisconnect(r) ==
    /\ ~hung
    /\ responses[r].contentType = "text/event-stream"
    /\ last' = [written |-> Len(responses[r].chunks)]
                    @@ Event("disconnect", Reply(0, "", 0, FALSE, r))
    /\ UNCHANGED <<env, sessions, transports, engines, responses, nextUuid,
                   hung>>

Init ==
    /\ env \in DeployedEnv
    /\ sessions = <<>>
    /\ transports = <<>>
    /\ engines = <<>>
    /\ responses = <<>>
    /\ nextUuid = 1
    /\ hung = FALSE
    /\ last = Event("none", NoReply)

\* The requests the clients of the model send.  A client whose Origin is not
\* on the allow-list sends one body; the others send every posted body.
ForeignOrigin == Str(<<"c">>)

PostedRequests ==
    {[origin |-> Unset, body |-> b] : b \in PostedBodies}
        \cup {[origin |-> ForeignOrigin,
                body |-> Body(Str("ping"), Num("0"), Undefined)]}

\* Whether the engine answers from inside the delivery is its own choice.
SyncChoices(body) == IF EngineRepliesSync(body) THEN BOOLEAN ELSE {FALSE}

Next ==
    \/ \E origin \in {Unset, ForeignOrigin}, sessionId \in SessionIdValues :
          GetMcp(origin, sessionId)
    \/ \E req \in PostedRequests, sessionId \in SessionIdValues :
          \E sync \in SyncChoices(req.body) :
              PostMcp(req.origin, sessionId, req.body, sync)
    \/ \E k \in 1..Len(transports) : EngineSend(k)
    \/ \E k \in 1..Len(transports) : TransportClose(k)
    \/ \E r \in 1..Len(responses) : EndResponse(r)
    \/ \E r \in 1..Len(responses) : ClientDisconnect(r)

Spec == Init /\ [][Next]_vars

\* ------------------------------------------------------------- properties
Transports == 1..Len(transports)

Responses == 1..Len(responses)

PrimingEvent == SseEvent(<<>>)

\* The SSE message events of a sequence of messages, in the same order.
FramesOf(q) == [i \in 1..Len(q) |-> SseEvent(JSONstringify(q[i]))]

IsStream(res) == res.contentType = "text/event-stream"

\* A POST request that has been answered with a JSON body.
IsAnswered(res) == res.contentType = "application/json" /\ res.statusCode = 200

\* An attach on transport k happens in exactly the steps that change its sink
\* reference: every attach is given a response object made for it.
Attached(k) == transports'[k].currentResponse # transports[k].currentResponse

\* C1: when attachResponse is called, every message of the Outbound Message
\* Queue is written to the newly attached sink as an SSE message event, in
\* queue order, each once, ahead of anything sent later, and none of them goes
\* anywhere else.
C1_AttachFlushesQueueToSink ==
    [][\A k \in Transports :
          Attached(k) =>
              LET r == transports'[k].currentResponse IN
              /\ responses'[r].chunks =
                     <<PrimingEvent>> \o FramesOf(transports[k].messageQueue)
              /\ transports'[k].messageQueue = <<>>
              /\ \A r2 \in Responses : responses'[r2] = responses[r2]]_vars

\* The number of places that hold message m: queue slots, SSE events written
\* and JSON bodies sent.
Count(S) == Cardinality(S)

Copies(m) ==
    LET RECURSIVE InQueues(_), InStreams(_)
        InQueues(k) ==
            IF k = 0 THEN 0
            ELSE Count({i \in 1..Len(transports[k].messageQueue) :
                           transports[k].messageQueue[i] = m}) + InQueues(k - 1)
        InStreams(r) ==
            IF r = 0 THEN 0
            ELSE Count({i \in 1..Len(responses[r].chunks) :
                           responses[r].chunks[i] = SseEvent(JSONstringify(m))})
                 + (IF responses[r].json = JSONstringify(m) THEN 1 ELSE 0)
                 + InStreams(r - 1)
    IN  InQueues(Len(transports)) + InStreams(Len(responses))

EveryMessageInOnePlace ==
    \A k \in Transports :
        \A n \in 1..engines[k].produced : Copies([src |-> k, seq |-> n]) = 1

\* A step in which the engine of transport k calls send() on its own, outside
\* any delivery.
EngineSends(k) ==
    /\ engines'[k].produced = engines[k].produced + 1
    /\ engines'[k].inbox = engines[k].inbox

\* C2: send() delivers its message to exactly one destination: the Pending
\* Responder if one is installed (the slot is cleared, an open sink is left
\* alone), otherwise the attached sink if it has not ended, otherwise the tail
\* of the queue; no message is ever in two places or in none.
C2_SendPriority ==
    [][/\ EveryMessageInOnePlace'
       /\ \A k \in Transports :
             EngineSends(k) =>
                 LET t == transports[k]
                     m == [src |-> k, seq |-> engines'[k].produced]
                     p == t.pendingRequestHandler
                     c == t.currentResponse
                 IN  IF p # 0 THEN
                         /\ responses' = [responses EXCEPT ![p] = ResJson(@, m)]
                         /\ transports' =
                                [transports EXCEPT ![k].pendingRequestHandler = 0]
                     ELSE IF c # 0 /\ ~responses[c].writableEnded THEN
                         /\ responses' = [responses EXCEPT ![c].chunks =
                                Append(@, SseEvent(JSONstringify(m)))]
                         /\ transports' = transports
                     ELSE
                         /\ responses' = responses
                         /\ transports' = [transports EXCEPT
                                ![k].messageQueue = Append(@, m)]]_vars

\* A request was answered through its Pending Responder while the session's
\* sink was attached and open, and the sink was not written.
C2_Witness ==
    \E r \in Responses :
        /\ IsAnswered(responses[r])
        /\ LET c == transports[responses[r].owner].currentResponse IN
           /\ c # 0
           /\ ~responses[c].writableEnded
           /\ responses[c].chunks = <<PrimingEvent>>

\* C3: a POST Request on a known session installs its Pending Responder before
\* the message reaches the engine, and a 200 reply carries the first message
\* the engine produced on that session after the delivery, never an older one.
C3_ReplyIsFirstMessageAfterDelivery ==
    \A r \in Responses :
        IsAnswered(responses[r]) =>
            responses[r].json =
                JSONstringify([src |-> responses[r].owner,
                               seq |-> responses[r].producedBefore + 1])

\* ---- what the requests of the claims look like, from their fields alone
HasMethod(b) == b.truthy /\ b.method.t = "string"

HasId(b) == b.truthy /\ b.id.t # "undefined"

HasResultOrError(b) ==
    b.truthy /\ (b.result.t # "undefined" \/ b.error.t # "undefined")

NamesInitialize(b) == HasMethod(b) /\ b.method.v = "initialize"

NotificationOrResponse(b) ==
    (HasMethod(b) /\ ~HasId(b)) \/ (HasId(b) /\ HasResultOrError(b))

KnownIds == DOMAIN sessions

\* Session ids that are not in the registry: the next two uuidv4() would return.
UnknownIds == {nextUuid, nextUuid + 1}

\* origin is one of the items of the comma-separated list e holds.
OnAllowList(e, origin) ==
    /\ e.t = "string"
    /\ \E i \in 1..(Len(e.v) + 1) : \E j \in (i - 1)..Len(e.v) :
          /\ SubSeq(e.v, i, j) = origin.v
          /\ \A n \in i..j : e.v[n] # ","
          /\ i = 1 \/ e.v[i - 1] = ","
          /\ j = Len(e.v) \/ e.v[j + 1] = ","

HasOrigin(origin) == origin.t = "string" /\ origin.v # <<>>

\* Requests the deployed allow-list lets through: without Origin header, or
\* with an Origin that is on the list.
AdmittedOrigins ==
    {o \in {Unset, Str(<<"b">>)} : ~HasOrigin(o) \/ OnAllowList(env, o)}

Unchanged(out) == out.w = World /\ out.sessions = sessions

\* C4: a POST on a known session whose body is a Notification or a Response
\* is forwarded to the engine exactly once and answered 202 with an empty
\* body; the handler leaves the pending slot, the queue and the sink alone.
C4_NotificationAccepted ==
    \A sessionId \in KnownIds, body \in Bodies, origin \in AdmittedOrigins :
        NotificationOrResponse(body) =>
            \A sync \in SyncChoices(body) :
                LET k == sessions[sessionId].transport
                    out == PostOutcome(origin, sessionId, body, sync)
                IN  /\ out.reply.status = 202
                    /\ out.reply.text = ""
                    /\ out.w.engines =
                           [engines EXCEPT ![k].inbox = Append(@, body)]
                    /\ out.w.transports = transports
                    /\ out.w.responses = responses
                    /\ out.sessions = sessions

\* A Notification or Response was posted to a session and answered 202.
C4_Witness ==
    /\ last.op = "POST" /\ last.status = 202
    /\ \E k \in Transports :
          /\ Len(engines[k].inbox) = 2
          /\ NotificationOrResponse(engines[k].inbox[2])

\* C5: a POST that fails validation changes nothing: 404 for a session id
\* that is not registered, whatever the body; 400 without a session id unless
\* the body is an initialize request.
C5_InvalidSubmitChangesNothing ==
    \A body \in Bodies, origin \in AdmittedOrigins :
        \A sync \in SyncChoices(body) :
            /\ \A sessionId \in UnknownIds :
                  LET out == PostOutcome(origin, sessionId, body, sync) IN
                  out.reply.status = 404 /\ Unchanged(out)
            /\ ~NamesInitialize(body) =>
                  LET out == PostOutcome(origin, 0, body, sync) IN
                  out.reply.status = 400 /\ Unchanged(out)

\* A POST was answered 404 while a session was registered.
C5_Witness ==
    last.op = "POST" /\ last.status = 404 /\ KnownIds # {}

\* C6: a POST without session id whose body is an initialize request registers
\* a fresh id with a new (engine, transport) pair, echoes it, writes the
\* priming event, attaches the response and only then delivers the body: what
\* the engine sends in reaction follows the priming event on that stream and
\* is not queued.  A GET with the new id succeeds, one with an id that is not
\* registered gets 404.
C6_InitializeOpensSession ==
    \A body \in Bodies, origin \in AdmittedOrigins :
        NamesInitialize(body) =>
            \A sync \in SyncChoices(body) :
                LET out == PostOutcome(origin, 0, body, sync)
                    r == Len(responses) + 1
                    k == Len(transports) + 1
                    res == out.w.responses[r]
                    id == res.sessionHeader
                    first == [src |-> k, seq |-> 1]
                    second == [src |-> k, seq |-> 2]
                    reaction == IF sync THEN <<first>> ELSE <<>>
                    later == Send(out.w, k, second)
                IN  /\ out.reply.status = 200 /\ out.reply.res = r
                    /\ id # 0 /\ id \notin KnownIds
                    /\ DOMAIN out.sessions = KnownIds \cup {id}
                    /\ out.sessions[id] = [server |-> k, transport |-> k]
                    /\ \A old \in KnownIds : out.sessions[old] = sessions[old]
                    /\ Len(out.w.transports) = k
                    /\ IsStream(res)
                    /\ res.chunks = <<PrimingEvent>> \o FramesOf(reaction)
                    /\ out.w.transports[k].currentResponse = r
                    /\ out.w.transports[k].messageQueue = <<>>
                    /\ out.w.engines[k].inbox = <<body>>
                    /\ later.responses[r].chunks =
                           res.chunks \o FramesOf(<<second>>)
                    /\ later.transports[k].messageQueue = <<>>
                    /\ Pipeline(env, origin, out.w, out.sessions,
                           HttpGet(out.w, out.sessions, id)).reply.status = 200
                    /\ \A u \in {id + 1, id + 2} :
                           Pipeline(env, origin, out.w, out.sessions,
                               HttpGet(out.w, out.sessions, u)).reply.status = 404

\* An initialization was answered with a stream that carries the session id
\* and, after the priming event, the engine's reaction.
C6_Witness ==
    /\ last.op = "POST" /\ last.status = 200 /\ last.res # 0
    /\ LET res == responses[last.res] IN
       /\ res.sessionHeader \in KnownIds
       /\ Len(res.chunks) = 2
       /\ res.chunks[1] = PrimingEvent
       /\ transports[res.owner].messageQueue = <<>>

\* C7: a GET without session id gets 400 and no registry lookup, one with an
\* id that is not registered gets 404, and neither changes anything.  A GET
\* with a registered id opens a 200 event stream whose first event is the one
\* priming event; everything flushed or sent later follows it.
C7_StreamAttach ==
    /\ \A r \in Responses :
          IsStream(responses[r]) =>
              /\ responses[r].chunks # <<>>
              /\ \A i \in 1..Len(responses[r].chunks) :
                    (responses[r].chunks[i] = PrimingEvent) <=> (i = 1)
    /\ \A origin \in AdmittedOrigins :
          /\ LET out == GetOutcome(origin, 0) IN
             /\ out.reply.status = 400 /\ ~out.reply.lookup
             /\ Unchanged(out)
          /\ \A sessionId \in UnknownIds :
                LET out == GetOutcome(origin, sessionId) IN
                out.reply.status = 404 /\ Unchanged(out)
          /\ \A sessionId \in KnownIds :
                LET out == GetOutcome(origin, sessionId)
                    k == sessions[sessionId].transport
                    r == Len(responses) + 1
                    res == out.w.responses[r]
                IN  /\ out.reply.status = 200 /\ out.reply.res = r
                    /\ res.statusCode = 200 /\ IsStream(res)
                    /\ res.chunks[1] = PrimingEvent
                    /\ \A i \in 2..Len(res.chunks) :
                          \E n \in 1..Len(transports[k].messageQueue) :
                              res.chunks[i] = SseEvent(JSONstringify(
                                  transports[k].messageQueue[n]))
                    /\ out.w.transports[k].currentResponse = r
                    /\ out.sessions = sessions

\* A GET opened a stream on which a flushed message follows the priming event.
C7_Witness ==
    /\ last.op = "GET" /\ last.status = 200 /\ last.res # 0
    /\ Len(responses[last.res].chunks) >= 2

\* C8: how a POST on a known session is handled is decided by three facts
\* about the body alone (method a string, id defined, result or error
\* defined), for every body: with an id and a result or error it is accepted
\* as a Response (202, forwarded, no responder), also when it has a method.
HandledAs(b) ==
    IF HasId(b) /\ HasResultOrError(b) THEN "accepted"
    ELSE IF HasMethod(b) /\ ~HasId(b) THEN "accepted"
    ELSE IF HasMethod(b) /\ HasId(b) THEN "request"
    ELSE "invalid"

C8_Classification ==
    \A sessionId \in KnownIds, body \in Bodies :
        \A sync \in SyncChoices(body) :
            LET k == sessions[sessionId].transport
                out == PostOutcome(Unset, sessionId, body, sync)
                forwarded == out.w.engines[k].inbox
                                 = Append(engines[k].inbox, body)
            IN  CASE HandledAs(body) = "accepted" ->
                        /\ out.reply.status = 202
                        /\ forwarded
                        /\ out.w.transports = transports
                        /\ out.w.responses = responses
                  [] HandledAs(body) = "request" ->
                        /\ out.reply.status \in {0, 200}
                        /\ forwarded
                        /\ Len(out.w.responses) = Len(responses) + 1
                        /\ out.reply.res = Len(responses) + 1
                  [] OTHER ->
                        /\ out.reply.status = 400
                        /\ Unchanged(out)

\* A body with a method, an id and a result was forwarded and answered 202.
C8_Witness ==
    /\ last.op = "POST" /\ last.status = 202
    /\ \E k \in Transports :
          LET b == engines[k].inbox[Len(engines[k].inbox)] IN
          /\ transports[k].pendingRequestHandler = 0
          /\ HasMethod(b) /\ HasId(b) /\ HasResultOrError(b)

\* C9: the registry only grows: a registered id stays registered with the
\* same (engine, transport) pair, and only a successful initialization adds
\* an entry, exactly one.
C9_RegistryOnlyGrows ==
    [][/\ \A id \in KnownIds :
             id \in DOMAIN sessions' /\ sessions'[id] = sessions[id]
       /\ DOMAIN sessions' # KnownIds =>
             /\ Cardinality(DOMAIN sessions') = Cardinality(KnownIds) + 1
             /\ last'.op = "POST" /\ last'.status = 200 /\ last'.res # 0
             /\ responses'[last'.res].sessionHeader
                    \in DOMAIN sessions' \ KnownIds]_vars

\* Two sessions are registered and a later request was answered with an error.
C9_Witness ==
    /\ Cardinality(KnownIds) = 2
    /\ last.status \in {400, 403, 404}
    /\ \A id \in KnownIds : sessions[id].transport \in Transports

\* C10: with an allow-list configured, a request whose Origin is non-empty and
\* not on the list is answered 403 with JSON-RPC error code -32000 before any
\* handler runs; a request without Origin is never rejected by this check.
C10_OriginCheck ==
    /\ \A e \in EnvValues, origin \in OriginValues :
          (e.t = "string" /\ e.v # <<>> /\ HasOrigin(origin)
              /\ ~OnAllowList(e, origin)) =>
              \A sessionId \in SessionIdValues :
                  /\ \A body \in PostedBodies :
                        LET out == Pipeline(e, origin, World, sessions,
                                HttpPost(World, sessions, sessionId, body, FALSE))
                        IN  /\ out.reply.status = 403
                            /\ out.reply.errorCode = -32000
                            /\ ~out.reply.lookup
                            /\ Unchanged(out)
                  /\ LET out == Pipeline(e, origin, World, sessions,
                                HttpGet(World, sessions, sessionId))
                     IN  /\ out.reply.status = 403
                         /\ out.reply.errorCode = -32000
                         /\ ~out.reply.lookup
                         /\ Unchanged(out)
    /\ \A e \in EnvValues :
          /\ ~OriginForbidden(e, Unset)
          /\ \A sessionId \in SessionIdValues :
                GetOutcome(Unset, sessionId).reply.status # 403

\* A request from an origin that is not on the list was answered 403 while a
\* session was registered.
C10_Witness ==
    /\ last.status = 403 /\ last.errorCode = -32000
    /\ KnownIds # {}

\* C11: every Pending Responder that is installed is invoked exactly once and
\* the slot is empty afterwards: a responder leaves the slot only by being
\* called (its request is answered 200 with the message that was sent), no
\* answered request is answered again, and none is dropped unanswered,
\* however the Requests on one session interleave.
C11_ResponderInvokedExactlyOnce ==
    [][/\ \A k \in Transports :
             LET p == transports[k].pendingRequestHandler IN
             (p # 0 /\ transports'[k].pendingRequestHandler # p) =>
                 /\ IsAnswered(responses'[p])
                 /\ transports'[k].pendingRequestHandler = 0
       /\ \A r \in Responses :
             IsAnswered(responses[r]) => responses'[r] = responses[r]]_vars

\* ------------------------------------------ the engine that answers requests
\* The same server with an engine that sends one message for each request it
\* was given and nothing else, and clients that only initialize, submit
\* Requests and open streams.
MaxLiveResponses == 3

\* The messages engine k still has to send: one for each request delivered.
Owed(k) ==
    Count({i \in 1..Len(engines[k].inbox) :
              EngineRepliesSync(engines[k].inbox[i])}) - engines[k].produced

LiveStep(out, op) ==
    /\ ~hung
    /\ Len(out.w.transports) <= MaxSessions
    /\ Len(out.w.responses) <= MaxLiveResponses
    /\ Commit(out.w)
    /\ sessions' = out.sessions
    /\ last' = Event(op, out.reply)
    /\ UNCHANGED env

LiveGet(sessionId) == LiveStep(GetOutcome(Unset, sessionId), "GET")

LivePost(sessionId, body, sync) ==
    LiveStep(PostOutcome(Unset, sessionId, body, sync), "POST")

\* The engine of transport k sends the answer to a request it was given.
EngineAnswers(k) ==
    /\ ~hung
    /\ k \in 1..Len(transports)
    /\ Owed(k) > 0
    /\ Commit(Send([World EXCEPT !.engines[k].produced = @ + 1], k,
                   [src |-> k, seq |-> engines[k].produced + 1]))
    /\ UNCHANGED <<env, sessions, last>>

LiveBodies ==
    {Body(Str("initialize"), Num("0"), Undefined),
     Body(Str("ping"), Num("0"), Undefined)}

LiveNext ==
    \/ \E sessionId \in SessionIdValues : LiveGet(sessionId)
    \/ \E sessionId \in SessionIdValues, body \in LiveBodies, sync \in BOOLEAN :
          LivePost(sessionId, body, sync)
    \/ \E k \in 1..Len(transports) : EngineAnswers(k)
    \/ \E r \in 1..Len(responses) : EndResponse(r)

\* The engine does send every message it owes.
EngineFairness == \A k \in 1..MaxSessions : WF_vars(EngineAnswers(k))

LiveSpec == Init /\ [][LiveNext]_vars /\ EngineFairness

\* The HTTP request of response r is blocked: its handler awaits the promise.
IsBlocked(r) == r \in Responses /\ responses[r].statusCode = 0

\* C12: when the engine sends one message for each Request it is given, every
\* Request submitted to a known session is eventually answered 200 with a JSON
\* body, however many Requests are in flight on the session: none stays
\* blocked forever.
C12_EveryRequestAnswered ==
    \A r \in 1..MaxLiveResponses :
        IsBlocked(r) ~> (r \in Responses /\ IsAnswered(responses[r]))

\* The streams opened for transport k, and the one its latest attach was
\* given (0 when none): every attach gets a response object made for it.
StreamsOf(k) ==
    {r \in Responses : IsStream(responses[r]) /\ responses[r].owner = k}

LatestStream(k) ==
    IF StreamsOf(k) = {} THEN 0
    ELSE CHOOSE r \in StreamsOf(k) : \A r2 \in StreamsOf(k) : r2 <= r

\* C13: a transport has one sink at a time, the one of its latest attach: the
\* attach leaves the replaced sink as it was (not ended, nothing written), and
\* every message sent later that no Pending Responder takes is written to the
\* new sink, or queued when that sink has ended, never to a replaced one.
C13_OneSinkAtATime ==
    [][\A k \in Transports :
          LET s1 == transports[k].currentResponse
              s2 == transports'[k].currentResponse
          IN  /\ s2 = LatestStream(k)'
              /\ (s1 # 0 /\ s2 # s1) => responses'[s1] = responses[s1]
              /\ \A r \in StreamsOf(k) :
                    r # s2 => responses'[r].chunks = responses[r].chunks
              /\ (EngineSends(k) /\ transports[k].pendingRequestHandler = 0) =>
                    LET m == [src |-> k, seq |-> engines'[k].produced] IN
                    IF responses[s1].writableEnded THEN
                        /\ transports'[k].messageQueue =
                               Append(transports[k].messageQueue, m)
                        /\ responses' = responses
                    ELSE
                        /\ responses'[s1].chunks =
                               Append(responses[s1].chunks,
                                      SseEvent(JSONstringify(m)))
                        /\ transports'[k].messageQueue =
                               transports[k].messageQueue]_vars

\* A second stream was attached while the first was open, and a message sent
\* afterwards is on the second stream only.
C13_Witness ==
    \E k \in Transports :
        \E s1 \in StreamsOf(k) :
            LET s2 == transports[k].currentResponse IN
            /\ s2 # s1
            /\ ~responses[s1].writableEnded
            /\ responses[s1].chunks = <<PrimingEvent>>
            /\ Len(responses[s2].chunks) = 2
            /\ responses[s2].producedBefore = 0

\* What world w holds of the transports other than k is what the current
\* state holds: their queue, pending slot and sink reference, their engine,
\* and every response object that belongs to them.
OthersUntouched(w, k) ==
    /\ \A k2 \in Transports \ {k} :
          /\ w.transports[k2] = transports[k2]
          /\ w.engines[k2] = engines[k2]
    /\ \A r \in Responses :
          responses[r].owner # k => w.responses[r] = responses[r]

\* C14: sessions are independent: a GET or a POST of any class addressed to
\* session S, and a send by S's engine, leave the queue, pending slot and sink
\* reference of every other session unchanged, write to no other session's
\* sink and answer no other session's blocked request.
C14_SessionsIndependent ==
    \A sessionId \in KnownIds :
        LET k == sessions[sessionId].transport IN
        /\ OthersUntouched(GetOutcome(Unset, sessionId).w, k)
        /\ \A body \in PostedBodies :
              \A sync \in SyncChoices(body) :
                  OthersUntouched(PostOutcome(Unset, sessionId, body, sync).w, k)
        /\ OthersUntouched(
               Send([World EXCEPT !.engines[k].produced = @ + 1], k,
                    [src |-> k, seq |-> engines[k].produced + 1]), k)

\* A Request was submitted to one session and is blocked, while another
\* session has its open stream, an empty slot and an empty queue.
C14_Witness ==
    /\ last.op = "POST" /\ last.res # 0 /\ last.status = 0
    /\ \E k \in Transports, k2 \in Transports :
          /\ k # k2
          /\ transports[k].pendingRequestHandler = last.res
          /\ transports[k2].pendingRequestHandler = 0
          /\ transports[k2].messageQueue = <<>>
          /\ responses[transports[k2].currentResponse].chunks = <<PrimingEvent>>

\* C15: a POST whose body names the initialize method, sent without session
\* id or with a registered one, creates a new session and is delivered to the
\* new session's engine only, never to a registered session; and a POST
\* creates a session only when its body is a Request (it has an id) with that
\* method.
C15_InitializeOnlyCreates ==
    \A sessionId \in {0} \cup KnownIds, body \in Bodies :
        \A sync \in SyncChoices(body) :
            LET out == PostOutcome(Unset, sessionId, body, sync)
                k == Len(transports) + 1
            IN  /\ NamesInitialize(body) =>
                      /\ Len(out.w.transports) = k
                      /\ DOMAIN out.sessions # KnownIds
                      /\ out.w.engines[k].inbox = <<body>>
                      /\ \A k2 \in Transports :
                            out.w.engines[k2] = engines[k2]
                /\ out.sessions # sessions =>
                      NamesInitialize(body) /\ HasId(body)

\* --------------------------------------------- the engine that may throw
\* The same server with an engine whose onmessage may throw on a Request.
PostMcpThrows(sessionId, body, caught) ==
    LET k == sessions[sessionId].transport
        out == PostRequestThrows(World, sessions, k, body, caught) IN
    /\ ~hung
    /\ isRequest(body)
    /\ WithinBounds(out.w)
    /\ Commit(out.w)
    /\ sessions' = out.sessions
    /\ last' = Event("POST", out.reply)
    /\ UNCHANGED env

FaultNext ==
    \/ \E sessionId \in SessionIdValues : GetMcp(Unset, sessionId)
    \/ \E sessionId \in SessionIdValues, body \in LiveBodies, sync \in BOOLEAN :
          PostMcp(Unset, sessionId, body, sync)
    \/ \E sessionId \in KnownIds, body \in LiveBodies, caught \in BOOLEAN :
          PostMcpThrows(sessionId, body, caught)
    \/ \E k \in 1..Len(transports) : EngineSend(k)
    \/ \E r \in 1..Len(responses) : EndResponse(r)

FaultSpec == Init /\ [][FaultNext]_vars

\* C16: when the engine throws while a Request is delivered to it, the HTTP
\* reply is 500, the message is neither queued nor delivered again, and the
\* session stays registered with the same transport.
C16_FailureReplies500 ==
    [][\A sessionId \in KnownIds, body \in LiveBodies, caught \in BOOLEAN :
          PostMcpThrows(sessionId, body, caught) =>
              LET k == sessions[sessionId].transport IN
              /\ last'.status = 500
              /\ engines'[k].inbox = Append(engines[k].inbox, body)
              /\ transports'[k].messageQueue = transports[k].messageQueue
              /\ sessions' = sessions]_vars

\* The client of stream r has gone away and no request came in since.
Disconnected(r) == last.op = "disconnect" /\ last.res = r

\* C17: a client disconnect on the attached stream changes nothing in the
\* transport, and what is sent afterwards with no Pending Responder installed
\* is written to the disconnected sink, not queued, so that a later attach
\* does not replay it.
C17_DisconnectChangesNothing ==
    [][/\ (last'.op = "disconnect" /\ last' # last) =>
             /\ transports' = transports
             /\ responses' = responses
             /\ sessions' = sessions
       /\ \A k \in Transports :
             LET r == transports[k].currentResponse IN
             (Disconnected(r) /\ ~responses[r].writableEnded) =>
                 /\ (EngineSends(k) /\ transports[k].pendingRequestHandler = 0) =>
                       /\ responses'[r].chunks =
                              Append(responses[r].chunks,
                                     SseEvent(JSONstringify(
                                         [src |-> k,
                                          seq |-> engines'[k].produced])))
                       /\ transports'[k].messageQueue =
                              transports[k].messageQueue
                 /\ LET new == HttpGet(World, sessions, transports[k].sessionId).w
                                   .responses[Len(responses) + 1].chunks
                    IN  \A i \in 2..Len(new) :
                            \A j \in 1..Len(responses[r].chunks) :
                                new[i] # responses[r].chunks[j]]_vars

\* A message was written to the attached stream after its client had gone,
\* and the queue is empty.
C17_Witness ==
    \E k \in Transports :
        LET r == transports[k].currentResponse IN
        /\ Disconnected(r)
        /\ ~responses[r].writableEnded
        /\ Len(responses[r].chunks) > last.written
        /\ transports[k].messageQueue = <<>>
        /\ transports[k].pendingRequestHandler = 0

\* ---- the transport's fields seen as a state machine
\* Whether transport k of world w has a sink it can write to.
SinkOpen(w, k) ==
    LET c == w.transports[k].currentResponse IN
    c # 0 /\ ~w.responses[c].writableEnded

\* The three states: a transport with a responder installed is awaiting,
\* otherwise one with a writable sink has a stream attached, otherwise it is
\* idle.
Tag(w, k) ==
    IF w.transports[k].pendingRequestHandler # 0
        THEN "AwaitingSynchronousResponse"
    ELSE IF SinkOpen(w, k) THEN "StreamAttached"
    ELSE "Idle"

\* The pair of facts send() reads.
Fields(w, k) ==
    [pending |-> w.transports[k].pendingRequestHandler # 0,
     sinkOpen |-> SinkOpen(w, k)]

\* The world after the engine of transport k has sent its next message, and
\* where that message went.
AfterSend(k) ==
    Send([World EXCEPT !.engines[k].produced = @ + 1], k,
         [src |-> k, seq |-> engines[k].produced + 1])

SendDestination(k) ==
    LET w == AfterSend(k)
        p == transports[k].pendingRequestHandler
        c == transports[k].currentResponse
    IN  IF w.transports[k].messageQueue # transports[k].messageQueue
            THEN "queue"
        ELSE IF p # 0 /\ w.responses[p] # responses[p] THEN "responder"
        ELSE IF c # 0 /\ w.responses[c] # responses[c] THEN "sink"
        ELSE "nowhere"

\* C18 as stated: the transport is a machine with the three states Idle,
\* AwaitingSynchronousResponse and StreamAttached, and that state alone fixes
\* where send() delivers and the state it leaves: as long as the state is the
\* same, so are the two.
C18_ThreeStateMachine ==
    [][\A k \in Transports :
          Tag(World, k) = Tag(World, k)' =>
              /\ SendDestination(k) = SendDestination(k)'
              /\ Tag(AfterSend(k), k) = Tag(AfterSend(k), k)']_vars

\* C18 amended: the state that fixes where send() delivers and what it leaves
\* is the pair (responder installed, sink writable): with a responder the
\* message goes to it and the slot is emptied, the sink being what it was;
\* without one it goes to the writable sink, else to the queue, and the pair
\* stays.
C18_FieldsDecideSend ==
    \A k \in Transports :
        LET f == Fields(World, k)
            g == Fields(AfterSend(k), k)
            d == SendDestination(k)
        IN  /\ g.sinkOpen = f.sinkOpen
            /\ ~g.pending
            /\ d = (IF f.pending THEN "responder"
                    ELSE IF f.sinkOpen THEN "sink" ELSE "queue")

\* A request was answered through its responder on a transport that holds a
\* sink as well, now ended: a state none of the three names describes.
C18_Witness ==
    \E k \in Transports :
        /\ transports[k].pendingRequestHandler = 0
        /\ ~SinkOpen(World, k)
        /\ \E r \in Responses :
              /\ responses[r].owner = k
              /\ IsAnswered(responses[r])
              /\ responses[r].producedBefore = 0

\* -------------------------------------------------- attachResponse by itself
\* attachResponse() called on one transport, for every queue content up to
\* MaxQueue messages, with and without a responder installed, and with a
\* response that is open or has ended.
MaxQueue == 3

QueuedMessages == {[src |-> 1, seq |-> 1], [src |-> 1, seq |-> 2]}

Queues == UNION {[1..n -> QueuedMessages] : n \in 0..MaxQueue}

AttachInit ==
    /\ env \in DeployedEnv
    /\ sessions = <<[server |-> 1, transport |-> 1]>>
    /\ \E q \in Queues, pending \in {0, 1} :
          transports = <<[NewTransport(1) EXCEPT
                             !.messageQueue = q,
                             !.pendingRequestHandler = pending]>>
    /\ engines = <<[inbox |-> <<>>, produced |-> 2]>>
    /\ \E ended \in BOOLEAN :
          responses = <<NewResponse(1, 0),
                        [NewResponse(1, 2) EXCEPT
                            !.statusCode = 200,
                            !.contentType = "text/event-stream",
                            !.chunks = <<SseEvent(<<>>)>>,
                            !.writableEnded = ended]>>
    /\ nextUuid = 2
    /\ hung = FALSE
    /\ last = Event("none", NoReply)

\* transport.attachResponse(res), res being the second response.
AttachCall ==
    /\ ~hung
    /\ transports[1].currentResponse = 0
    /\ Commit(AttachResponse(World, 1, 2))
    /\ UNCHANGED <<env, sessions, last>>

AttachNext == AttachCall

AttachSpec == AttachInit /\ [][AttachNext]_vars

C20_OpenSinkEmptyQueue ==
    \A k \in Transports :
        SinkOpen(World, k) => transports[k].messageQueue = <<>>

\* A transport whose earlier stream has ended holds an open sink that carries
\* a message sent before the sink was attached, and its queue is empty.
C20_Witness ==
    \E k \in Transports :
        LET c == transports[k].currentResponse IN
        /\ SinkOpen(World, k)
        /\ transports[k].messageQueue = <<>>
        /\ \E s1 \in StreamsOf(k) : s1 # c /\ responses[s1].writableEnded
        /\ responses[c].producedBefore > 0
        /\ \E n \in 1..responses[c].producedBefore :
              \E i \in 1..Len(responses[c].chunks) :
                  responses[c].chunks[i] =
                      SseEvent(JSONstringify([src |-> k, seq |-> n]))

====
